---------------------------- MODULE Spec2Model ----------------------------
(***************************************************************************)
(* A model of the interview report generator (src/app.py and its older     *)
(* near-duplicate src/main.py): the narrative parser, the chart and table  *)
(* builders, the page chrome callbacks and the request handler that        *)
(* assembles the document.                                                 *)
(*                                                                         *)
(* Texts are sequences of tokens.  A token is either one character that    *)
(* the regular expressions look at (a blank, a line break, a digit, a      *)
(* period, a letter) or one of the literal words of the patterns           *)
(* ("Question:", "Score:", "Comment:", "Overall Evaluation:", "Your "),    *)
(* in two letter cases.                                                    *)
(***************************************************************************)
EXTENDS Integers, Sequences, FiniteSets, TLC

VARIABLES
    \* --- parse_full_report applied to a generated text (SpecParse)
    text,            \* the argument of parse_full_report
    blocks,          \* the well-formed blocks text was made of, in order
    wf,              \* text is made of well-formed blocks only
    nsegs,           \* number of segments text was made of
    parsed,          \* parse_full_report has returned
    structured_qa,   \* its first result
    remaining_text,  \* its second result
    \* --- the chart and table builders applied to generated records (SpecVisuals)
    parsed_data,     \* the argument of create_score_chart and create_qa_table
    chart,           \* what create_score_chart returned
    table,           \* what create_qa_table returned
    \* --- the process and the request it is serving (Spec)
    variant,         \* the file that runs: "app" (src/app.py) or "main" (src/main.py)
    registered,      \* pdfmetrics holds FONT_NAME_REGULAR
    regCount,        \* calls of pdfmetrics.registerFont that went through
    nreq,            \* requests received so far
    pc,              \* where generate_report_api is
    req,             \* the request payload
    qa_data,         \* generate_report_api's qa_data
    rem_text,        \* generate_report_api's remaining_text
    story,           \* the story as built
    todo,            \* the flowables doc.build has not placed yet
    pages,           \* the pages doc.build has begun
    avail,           \* height left in the frame of the last page
    nextTpl,         \* the page template of the next page
    cover,           \* what draw_first_page_bg did to the canvas
    errAt,           \* the step that raised into the handler's except, or "none"
    response         \* what the handler returned

parseVars == <<text, blocks, wf, nsegs, parsed, structured_qa, remaining_text>>
visVars == <<parsed_data, chart, table>>

reqVars == <<variant, registered, regCount, nreq, pc, req, qa_data, rem_text, story,
             todo, pages, avail, nextTpl, cover, errAt, response>>

vars == <<parseVars, visVars, reqVars>>

-----------------------------------------------------------------------------
(* Bounds *)

MaxSegs == 3
MaxRecs == 2
MaxScore == 11
MaxBlocks == 2
MaxRequests == 2

-----------------------------------------------------------------------------
(* Program constants, in points *)

PAGE_HEIGHT == 842
BOX_HEIGHT == 482
ChartHeight == 120
LineHeight == 14
HeadingHeight == 14
FramePadding == 6

-----------------------------------------------------------------------------
(* Tokens *)

NL == "\n"
SP == " "

IsWs(x) == x \in {SP, NL}

IsDigit(x) == x \in {"0", "1", "2", "3", "8"}

DigitVal(x) ==
    CASE x = "0" -> 0 [] x = "1" -> 1 [] x = "2" -> 2 [] x = "3" -> 3
      [] x = "8" -> 8

\* re.IGNORECASE with the letter case removed: the word a token is, in lower case.
FoldExact(x) == x

Fold(x) ==
    CASE x \in {"Question:", "question:"} -> "question:"
      [] x \in {"Score:", "SCORE:"} -> "score:"
      [] x \in {"Comment:", "comment:"} -> "comment:"
      [] x \in {"Overall Evaluation:", "overall evaluation:"} -> "overall evaluation:"
      [] OTHER -> x

\* The labels as the patterns spell them.
IsQ(x) == Fold(x) = Fold("Question:")
IsS(x) == Fold(x) = Fold("Score:")
IsC(x) == Fold(x) = Fold("Comment:")
IsOE(x) == Fold(x) = Fold("Overall Evaluation:")

-----------------------------------------------------------------------------
(* The regular expression of parse_full_report, as the backtracking        *)
(* matcher runs it.  Positions are 1-based; an end is exclusive.           *)

RECURSIVE SkipWs(_, _)
\* \s*, greedy: the first position at or after i that holds no white space.
SkipWs(t, i) == IF i <= Len(t) /\ IsWs(t[i]) THEN SkipWs(t, i + 1) ELSE i

RECURSIVE SkipDigits(_, _)
\* \d* / [0-9]*, greedy.
SkipDigits(t, i) == IF i <= Len(t) /\ IsDigit(t[i]) THEN SkipDigits(t, i + 1) ELSE i

HasNL(t, i, j) == \E k \in i..(j - 1) : t[k] = NL

Min(S) == CHOOSE x \in S : \A y \in S : x <= y
Max(S) == CHOOSE x \in S : \A y \in S : x >= y

\* (?=\n\s*Question:|\n\s*[0-9]+\.|\Z) at position e.
LookAhead(t, e) ==
    \/ e = Len(t) + 1
    \/ /\ e <= Len(t)
       /\ t[e] = NL
       /\ LET j == SkipWs(t, e + 1)
              d == SkipDigits(t, j)
          IN  \/ j <= Len(t) /\ IsQ(t[j])
              \/ d > j /\ d <= Len(t) /\ t[d] = "."

\* \s*\n\s* followed by a label: all the white space from i on, a line break in it.
\* The position of the label, or 0.
LineGap(t, i) ==
    LET j == SkipWs(t, i)
    IN  IF j <= Len(t) /\ HasNL(t, i, j) THEN j ELSE 0

\* Score:\s*(\d+)\s*\n\s*Comment:\s*(.+?)(?=...) with "Score:" at j.
\* <<>> when it does not match, else <<first digit, end of digits, first of the
\* comment, end of the comment>>.
ScorePart(t, j) ==
    LET d0 == SkipWs(t, j + 1)
        d1 == SkipDigits(t, d0)
        w  == IF d1 > d0 THEN LineGap(t, d1) ELSE 0
        m  == SkipWs(t, w + 1)
        \* \s* gives one character back to (.+?) when it ran to the end of the text
        cs == IF m <= Len(t) THEN m ELSE IF m - 1 > w THEN m - 1 ELSE 0
    IN  IF w = 0 \/ ~IsC(t[w]) \/ cs = 0 THEN <<>>
        ELSE <<d0, d1, cs, Min({e \in (cs + 1)..(Len(t) + 1) : LookAhead(t, e)})>>

\* (.+?)\s*\n\s*Score:... with the question ending before qe.
AfterQuestion(t, qe) ==
    LET j == LineGap(t, qe)
    IN  IF j = 0 \/ ~IsS(t[j]) THEN <<>> ELSE ScorePart(t, j)

\* The whole pattern at p: <<>> or the match
\* [qs, qe, d0, d1, cs, ce]: question in qs..qe-1, digits in d0..d1-1, comment
\* in cs..ce-1.  \s* after "Question:" is greedy (the longest first), (.+?) lazy.
MatchAt(t, p) ==
    IF p > Len(t) \/ ~IsQ(t[p]) THEN <<>>
    ELSE LET m == SkipWs(t, p + 1)
             Ends(qs) == {qe \in (qs + 1)..Len(t) : AfterQuestion(t, qe) # <<>>}
             Starts == {qs \in (p + 1)..m : Ends(qs) # {}}
         IN  IF Starts = {} THEN <<>>
             ELSE LET qs == Max(Starts)
                      qe == Min(Ends(qs))
                  IN  <<qs, qe>> \o AfterQuestion(t, qe)

RECURSIVE FindAll(_, _)
\* re.findall: the matches from left to right, each search starting where the
\* previous match ended.
FindAll(t, pos) ==
    IF pos > Len(t) THEN <<>>
    ELSE LET m == MatchAt(t, pos)
         IN  IF m = <<>> THEN FindAll(t, pos + 1)
             ELSE <<m>> \o FindAll(t, m[6])

-----------------------------------------------------------------------------
(* String helpers *)

Slice(t, i, j) == IF j < i THEN <<>> ELSE SubSeq(t, i, j)

\* str.strip()
Strip(t) ==
    LET keep == {i \in 1..Len(t) : ~IsWs(t[i])}
    IN  IF keep = {} THEN <<>> ELSE SubSeq(t, Min(keep), Max(keep))

RECURSIVE RemoveAll(_, _)
\* str.replace(x, "")
RemoveAll(t, x) ==
    IF t = <<>> THEN <<>>
    ELSE IF Head(t) = x THEN RemoveAll(Tail(t), x)
    ELSE <<Head(t)>> \o RemoveAll(Tail(t), x)

\* str.replace(x, y) for one-character x
ReplaceAll(t, x, y) == [i \in 1..Len(t) |-> IF t[i] = x THEN y ELSE t[i]]

RECURSIVE ToInt(_)
\* int(s) of a run of digits
ToInt(s) == IF s = <<>> THEN 0 ELSE 10 * ToInt(SubSeq(s, 1, Len(s) - 1)) + DigitVal(s[Len(s)])

-----------------------------------------------------------------------------
(* parse_full_report *)

\* One (q, s, c) of the matches, cleaned: the loop body.
CleanRecord(t, m) ==
    [question |-> Strip(RemoveAll(Slice(t, m[1], m[2] - 1), "Your ")),
     score    |-> ToInt(Slice(t, m[3], m[4] - 1)),
     comment  |-> ReplaceAll(Strip(Slice(t, m[5], m[6] - 1)), NL, SP)]

\* (2\.\s*Overall Evaluation:|Overall Evaluation:) at p
SplitAt(t, p) ==
    \/ /\ p + 1 <= Len(t)
       /\ t[p] = "2"
       /\ t[p + 1] = "."
       /\ LET j == SkipWs(t, p + 2) IN j <= Len(t) /\ IsOE(t[j])
    \/ IsOE(t[p])

\* re.search over the whole text: the leftmost position that matches, or 0.
SplitSearch(t) ==
    LET hits == {p \in 1..Len(t) : SplitAt(t, p)}
    IN  IF hits = {} THEN 0 ELSE Min(hits)

\* The search run only on the text that follows the last record.
RemainingTextAfterRecords(t) ==
    LET matches == FindAll(t, 1)
        from == IF matches = <<>> THEN 1 ELSE matches[Len(matches)][6]
        hits == {p \in from..Len(t) : SplitAt(t, p)}
    IN  IF hits = {} THEN <<>> ELSE Strip(SubSeq(t, Min(hits), Len(t)))

RemainingText(t) ==
    LET start_index == SplitSearch(t)
    IN  IF start_index # 0 THEN Strip(SubSeq(t, start_index, Len(t))) ELSE <<>>

StructuredQa(t) ==
    LET matches == FindAll(t, 1)
    IN  [i \in 1..Len(matches) |-> CleanRecord(t, matches[i])]

parse_full_report(t) == <<StructuredQa(t), RemainingText(t)>>

-----------------------------------------------------------------------------
(* create_score_chart and create_qa_table *)

Unbuilt == [st |-> "unbuilt", labels |-> <<>>, data |-> <<>>, fills |-> <<>>]
NoneValue == [st |-> "none", labels |-> <<>>, data |-> <<>>, fills |-> <<>>]

\* The thresholds of the table moved by one: "green" from 6 up.
CellColorFromSix(s) == IF s >= 6 THEN "green" ELSE IF s > 3 THEN "orange" ELSE "red"

\* The fill of one bar.
BarFill(val) ==
    IF val <= 3 THEN "#e74c3c" ELSE IF val <= 6 THEN "#f1c40f" ELSE "#2ecc71"

\* The font colour of one score cell.
CellColor(s) == IF s > 6 THEN "green" ELSE IF s > 3 THEN "orange" ELSE "red"

\* labels holds n for the category name "Qn"
create_score_chart(qa) ==
    IF qa = <<>> THEN NoneValue
    ELSE [st     |-> "drawing",
          labels |-> [i \in 1..Len(qa) |-> i],
          data   |-> [i \in 1..Len(qa) |-> qa[i].score],
          fills  |-> [i \in 1..Len(qa) |-> BarFill(qa[i].score)]]

\* data holds the rows under the header row, fills the colour of each score cell
create_qa_table(qa) ==
    IF qa = <<>> THEN NoneValue
    ELSE [st     |-> "table",
          labels |-> <<"Question", "Analysis / Feedback", "Score">>,
          data   |-> [i \in 1..Len(qa) |->
                         <<qa[i].question, qa[i].comment, qa[i].score>>],
          fills  |-> [i \in 1..Len(qa) |-> CellColor(qa[i].score)]]

VisInitVars ==
    /\ parsed_data = <<>>
    /\ chart = Unbuilt
    /\ table = Unbuilt

AddRecord ==
    /\ chart = Unbuilt /\ table = Unbuilt
    /\ Len(parsed_data) < MaxRecs
    /\ \E s \in 0..MaxScore :
          parsed_data' = Append(parsed_data,
                                [question |-> <<"a">>, score |-> s, comment |-> <<"b">>])
    /\ UNCHANGED <<chart, table>>

BuildChart ==
    /\ chart = Unbuilt
    /\ chart' = create_score_chart(parsed_data)
    /\ UNCHANGED <<parsed_data, table>>

BuildTable ==
    /\ table = Unbuilt
    /\ table' = create_qa_table(parsed_data)
    /\ UNCHANGED <<parsed_data, chart>>

-----------------------------------------------------------------------------
(* The texts parse_full_report is applied to: segments joined by a line     *)
(* break or a blank.                                                       *)

\* Well-formed Question / Score / Comment blocks, with the question as written
\* and the value of the score.
BlkA == [toks  |-> <<"Question:", SP, "Your ", "a", NL, "Score:", SP, "8", NL,
                     "Comment:", SP, "a">>,
         q     |-> <<"Your ", "a">>,
         score |-> 8]

\* labels in another letter case, a two-digit score, a comment of two lines
BlkB == [toks  |-> <<"question:", "b", SP, "Your ", "b", NL, "SCORE:", "1", "0", SP, NL,
                     SP, "comment:", "b", NL, "a">>,
         q     |-> <<"b", SP, "Your ", "b">>,
         score |-> 10]

\* a leading zero, a numbered line inside the comment
BlkC == [toks  |-> <<"Question:", "a", NL, "Score:", "0", "3", NL,
                     "Comment:", "a", NL, "2", ".", "a">>,
         q     |-> <<"a">>,
         score |-> 3]

WellFormedBlocks == {BlkA, BlkB, BlkC}

\* The evaluation summary, with and without its "2." prefix.
Markers == { <<"Overall Evaluation:", SP, "a">>,
             <<"2", ".", SP, "overall evaluation:", "a", SP>> }

\* Other text: a word, a label with nothing after it, a block whose score is
\* no integer.
Words == { <<"a">> }
Malformed == { <<"Question:">>,
               <<"Question:", "b", NL, "Score:", "a", NL, "Comment:", "b">> }

Join(t, sep, seg) == IF t = <<>> THEN seg ELSE t \o <<sep>> \o seg

ParseInitVars ==
    /\ text = <<>>
    /\ blocks = <<>>
    /\ wf = TRUE
    /\ nsegs = 0
    /\ parsed = FALSE
    /\ structured_qa = <<>>
    /\ remaining_text = <<>>

AppendBlock ==
    /\ ~parsed /\ nsegs < MaxSegs
    /\ \E b \in WellFormedBlocks, sep \in {NL, SP} :
          /\ text' = Join(text, sep, b.toks)
          /\ blocks' = Append(blocks, [q |-> b.q, score |-> b.score])
          \* a block starts on a line of its own
          /\ wf' = (wf /\ (text = <<>> \/ sep = NL))
    /\ nsegs' = nsegs + 1
    /\ UNCHANGED <<parsed, structured_qa, remaining_text>>

AppendMarker ==
    /\ ~parsed /\ nsegs < MaxSegs
    /\ \E m \in Markers \cup Words, sep \in {NL, SP} : text' = Join(text, sep, m)
    /\ nsegs' = nsegs + 1
    /\ UNCHANGED <<blocks, wf, parsed, structured_qa, remaining_text>>

AppendMalformed ==
    /\ ~parsed /\ nsegs < MaxSegs
    /\ \E m \in Malformed, sep \in {NL, SP} : text' = Join(text, sep, m)
    /\ wf' = FALSE
    /\ nsegs' = nsegs + 1
    /\ UNCHANGED <<blocks, parsed, structured_qa, remaining_text>>

Parse ==
    /\ ~parsed
    /\ parsed' = TRUE
    /\ structured_qa' = parse_full_report(text)[1]
    /\ remaining_text' = parse_full_report(text)[2]
    /\ UNCHANGED <<text, blocks, wf, nsegs>>

-----------------------------------------------------------------------------
(* generate_report_api: the payloads *)

required_fields ==
    <<"candidate_name", "candidate_position", "date", "interview_id", "ai_overview">>

RequiredSet == {required_fields[i] : i \in 1..Len(required_fields)}

\* The narrative of a payload: n blocks, then the evaluation summary or not.
BlockNo(i) == IF i % 3 = 1 THEN BlkA ELSE IF i % 3 = 2 THEN BlkB ELSE BlkC

RECURSIVE BlocksText(_)
BlocksText(n) ==
    IF n = 0 THEN <<>> ELSE Join(BlocksText(n - 1), NL, BlockNo(n).toks)

Narrative(n, summary) ==
    IF summary
    THEN Join(BlocksText(n), NL, <<NL, "Overall Evaluation:", SP, "a", NL, "b">>)
    ELSE BlocksText(n)

NoAi == [isStr |-> FALSE, toks |-> <<>>]

\* ai_overview: a string, or a JSON value that is no string
AiValues ==
    {[isStr |-> TRUE, toks |-> Narrative(n, m)] : n \in 0..MaxBlocks, m \in BOOLEAN}
        \cup {NoAi}

\* request.get_json(): a JSON object with some of the keys, JSON null, or a body
\* that is no JSON.  photo is the value under photo_url: no such key, an empty
\* string, or a reference.
Payloads ==
    {[kind |-> "object", keys |-> k, photo |-> ph, ai |-> NoAi] :
        k \in SUBSET (RequiredSet \ {"ai_overview"}), ph \in {"absent", "empty", "url"}}
      \cup
    {[kind |-> "object", keys |-> k \cup {"ai_overview"}, photo |-> ph, ai |-> a] :
        k \in SUBSET (RequiredSet \ {"ai_overview"}), ph \in {"absent", "empty", "url"},
        a \in AiValues}
      \cup
    {[kind |-> kd, keys |-> {}, photo |-> "absent", ai |-> NoAi] :
        kd \in {"null", "unparseable"}}

\* not req_data
Falsy(p) == p.kind = "null" \/ (p.kind = "object" /\ p.keys = {} /\ p.photo = "absent")

\* The first field of required_fields that is not in the payload, or "".
FirstMissing(p) ==
    LET miss == {i \in 1..Len(required_fields) : required_fields[i] \notin p.keys}
    IN  IF miss = {} THEN "" ELSE required_fields[Min(miss)]

NoResponse == [outcome |-> "none", status |-> 0, error |-> "", field |-> "", body |-> <<>>]

ValidationResponse(msg, f) ==
    [outcome |-> "validation", status |-> 400, error |-> msg, field |-> f, body |-> <<>>]

\* An except clause that sends what doc.build wrote so far.
ErrorResponseWithBuffer(at, buf) ==
    [outcome |-> "internal", status |-> 500, error |-> at, field |-> "", body |-> buf]

\* except Exception as e: return jsonify({"error": str(e)}), 500
ErrorResponse(at, buf) ==
    [outcome |-> "internal", status |-> 500, error |-> at, field |-> "", body |-> <<>>]

\* send_file(buffer, ...)
FileResponse(buf) ==
    [outcome |-> "document", status |-> 200, error |-> "", field |-> "", body |-> buf]

NoCover ==
    [bg |-> FALSE, font |-> "none", text |-> FALSE, tried |-> <<>>, image |-> "none",
     photo |-> FALSE, depth |-> 0, clip |-> FALSE, failed |-> {}, returned |-> FALSE]

ReqInitVars ==
    /\ registered = FALSE
    /\ regCount = 0
    /\ nreq = 0
    /\ pc = "idle"
    /\ req = [kind |-> "null", keys |-> {}, photo |-> "absent", ai |-> NoAi]
    /\ qa_data = <<>>
    /\ rem_text = <<>>
    /\ story = <<>>
    /\ todo = <<>>
    /\ pages = <<>>
    /\ avail = 0
    /\ nextTpl = "First"
    /\ cover = NoCover
    /\ errAt = "none"
    /\ response = NoResponse

\* An exception reaches the except clause of generate_report_api.
Raise(at) ==
    /\ errAt' = at
    /\ response' = ErrorResponse(at, pages)
    /\ pc' = "done"

\* Lines 245-255: the payload is read and checked.
Validate ==
    /\ pc = "idle"
    /\ nreq < MaxRequests
    /\ nreq' = nreq + 1
    /\ \E p \in Payloads :
          /\ req' = p
          /\ IF p.kind = "unparseable"
             THEN Raise("get_json")
             ELSE /\ errAt' = "none"
                  /\ IF Falsy(p)
                     THEN /\ response' = ValidationResponse("No JSON data provided", "")
                          /\ pc' = "done"
                     ELSE IF FirstMissing(p) # ""
                     THEN /\ response' = ValidationResponse("Missing field", FirstMissing(p))
                          /\ pc' = "done"
                     ELSE /\ response' = NoResponse
                          /\ pc' = "validated"
    /\ qa_data' = <<>> /\ rem_text' = <<>> /\ story' = <<>> /\ todo' = <<>>
    /\ pages' = <<>> /\ avail' = 0 /\ nextTpl' = "First" /\ cover' = NoCover
    /\ UNCHANGED <<variant, registered, regCount>>

-----------------------------------------------------------------------------
(* generate_report_api: the story *)

Flowable(kind, label, head, unit, n, txt) ==
    [kind |-> kind, label |-> label, head |-> head, unit |-> unit, n |-> n, txt |-> txt]

\* The height of a flowable: a part that does not split (head) and n units that do.
Height(f) == f.head + f.n * f.unit

\* remaining_text formatted for the Paragraph (re.sub is case sensitive)
FormatRemainder(t) ==
    [i \in 1..Len(t) |->
        IF t[i] = NL THEN "<br/>"
        ELSE IF t[i] = "Overall Evaluation:" THEN "<b>Overall Evaluation:</b>"
        ELSE t[i]]

\* Heights the layout engine measures: of one table row, and the lines of the
\* narrative paragraph.
RowHeights == {30, 400, 760}
HeaderRowHeight == 24
ParaLines == {3, 90}

\* The headings put in the story whether or not there are records.
StoryWithBareHeadings(qa, rem, rowh, lines) ==
    <<Flowable("NextPageTemplate", "Later", 0, 0, 0, <<>>),
      Flowable("Paragraph", "Score Overview", HeadingHeight, 0, 0, <<>>),
      Flowable("Paragraph", "Detailed Question Analysis", HeadingHeight, 0, 0, <<>>)>>
    \o (IF rem # <<>>
        THEN <<Flowable("Paragraph", "narrative", 0, LineHeight, lines, FormatRemainder(rem))>>
        ELSE <<>>)

\* Lines 279-309.
StoryOf(qa, rem, rowh, lines) ==
    <<Flowable("NextPageTemplate", "Later", 0, 0, 0, <<>>)>>
    \o (IF qa # <<>>
        THEN <<Flowable("Paragraph", "Score Overview", HeadingHeight, 0, 0, <<>>)>>
             \o (IF create_score_chart(qa).st # "none"
                 THEN <<Flowable("Drawing", "chart", ChartHeight, 0, 0, <<>>),
                        Flowable("Spacer", "Spacer(1, 15)", 15, 0, 0, <<>>)>>
                 ELSE <<>>)
        ELSE <<>>)
    \o (IF qa # <<>>
        THEN <<Flowable("Paragraph", "Detailed Question Analysis", HeadingHeight, 0, 0, <<>>),
               Flowable("Spacer", "Spacer(1, 5)", 5, 0, 0, <<>>),
               Flowable(create_qa_table(qa).st, "table", HeaderRowHeight, rowh, Len(qa), <<>>),
               Flowable("Spacer", "Spacer(1, 20)", 20, 0, 0, <<>>)>>
        ELSE <<>>)
    \o (IF rem # <<>>
        THEN <<Flowable("Paragraph", "narrative", 0, LineHeight, lines, FormatRemainder(rem))>>
        ELSE <<>>)

\* Lines 255-309: the text is parsed and the story built.  A payload whose
\* ai_overview is no string makes re.findall raise.
BuildStory ==
    /\ pc = "validated"
    /\ IF ~req.ai.isStr
       THEN /\ Raise("parse")
            /\ UNCHANGED <<qa_data, rem_text, story, todo>>
       ELSE /\ qa_data' = parse_full_report(req.ai.toks)[1]
            /\ rem_text' = parse_full_report(req.ai.toks)[2]
            /\ \E rowh \in (IF qa_data' = <<>> THEN {0} ELSE RowHeights),
                  lines \in (IF rem_text' = <<>> THEN {0} ELSE ParaLines) :
                  story' = StoryOf(qa_data', rem_text', rowh, lines)
            /\ todo' = story'
            /\ pc' = "built"
            /\ UNCHANGED <<errAt, response>>
    /\ UNCHANGED <<variant, registered, regCount, nreq, req, pages, avail, nextTpl, cover>>

-----------------------------------------------------------------------------
(* doc.build(story): the first page and its chrome *)

\* The height of the frame of a page template, inside the frame's padding.
FrameAvail(tpl) ==
    IF tpl = "First" THEN BOX_HEIGHT - 2 * FramePadding
    ELSE (PAGE_HEIGHT - 100) - 2 * FramePadding

Page(tpl, no) == [tpl |-> tpl, items |-> <<>>, footer |-> no]

\* The first page begins on the first page template, 'First', and its onPage
\* callback draw_first_page_bg starts.
DocBuildBegin ==
    /\ pc = "built"
    /\ pages' = <<Page("First", 0)>>
    /\ avail' = FrameAvail("First")
    /\ pc' = "cover_template"
    /\ UNCHANGED <<variant, registered, regCount, nreq, req, qa_data, rem_text, story,
                   todo, nextTpl, cover, errAt, response>>

\* Every step of the callback but the drawing of the photo sits in a try.
CaughtButPhotoDraw(step) == step # "photoDraw"

\* The steps of draw_first_page_bg whose exceptions are caught where they are
\* raised: each optional asset sits in its own try / except.
Caught(step) == step \in {"template", "font", "userLoad", "defaultLoad", "photoDraw"}

\* A step of the callback failed: st is the state the callback goes on from.
Fail(step, what, st, nextpc) ==
    IF Caught(step)
    THEN /\ cover' = [st EXCEPT !.failed = @ \cup {what}]
         /\ pc' = nextpc
         /\ UNCHANGED <<errAt, response>>
    ELSE /\ cover' = [st EXCEPT !.failed = @ \cup {what}]
         /\ Raise("chrome")

Go(st, nextpc) ==
    /\ cover' = st
    /\ pc' = nextpc
    /\ UNCHANGED <<errAt, response>>

\* canvas.saveState(), then the template image when the file exists.
CoverTemplate ==
    /\ pc = "cover_template"
    /\ LET st == [cover EXCEPT !.depth = @ + 1]
       IN  \E exists, drawn \in BOOLEAN :
              IF ~exists THEN Fail("template", "templateMissing", st, "cover_font")
              ELSE IF ~drawn THEN Fail("template", "templateDraw", st, "cover_font")
              ELSE Go([st EXCEPT !.bg = TRUE], "cover_font")
    /\ UNCHANGED <<variant, registered, regCount, nreq, req, qa_data, rem_text, story,
                   todo, pages, avail, nextTpl>>

\* register_custom_fonts(), called from the callback, and the choice of fonts.
CoverFont ==
    /\ pc = "cover_font"
    /\ \E exists, ok \in BOOLEAN :
          IF exists /\ ok
          THEN /\ registered' = TRUE
               /\ regCount' = regCount + 1
               /\ Go([cover EXCEPT !.font = "custom"], "cover_text")
          ELSE /\ UNCHANGED <<registered, regCount>>
               /\ Fail("font", IF exists THEN "fontRegister" ELSE "fontMissing",
                       [cover EXCEPT !.font = "builtin"], "cover_text")
    /\ UNCHANGED <<variant, nreq, req, qa_data, rem_text, story, todo, pages, avail,
                   nextTpl>>

\* The name, position, date and interview id are drawn.
CoverText ==
    /\ pc = "cover_text"
    /\ Go([cover EXCEPT !.text = TRUE],
          IF variant = "app" THEN "cover_user" ELSE "cover_photo_main")
    /\ UNCHANGED <<variant, registered, regCount, nreq, req, qa_data, rem_text, story,
                   todo, pages, avail, nextTpl>>

\* app.py: ImageReader(user_photo) when the payload names a photo.
CoverLoadUser ==
    /\ pc = "cover_user"
    /\ IF req.photo = "url"
       THEN LET st == [cover EXCEPT !.tried = Append(@, "user")]
            IN  \E ok \in BOOLEAN :
                   IF ok THEN Go([st EXCEPT !.image = "user"], "cover_default")
                   ELSE Fail("userLoad", "userLoad", st, "cover_default")
       ELSE Go(cover, "cover_default")
    /\ UNCHANGED <<variant, registered, regCount, nreq, req, qa_data, rem_text, story,
                   todo, pages, avail, nextTpl>>

\* app.py: ImageReader(PHOTO_URL_DEFAULT) when there is no image yet.
CoverLoadDefault ==
    /\ pc = "cover_default"
    /\ IF cover.image = "none"
       THEN LET st == [cover EXCEPT !.tried = Append(@, "default")]
            IN  \E ok \in BOOLEAN :
                   IF ok THEN Go([st EXCEPT !.image = "default"], "cover_draw")
                   ELSE Fail("defaultLoad", "defaultLoad", st, "cover_draw")
       ELSE Go(cover, "cover_draw")
    /\ UNCHANGED <<variant, registered, regCount, nreq, req, qa_data, rem_text, story,
                   todo, pages, avail, nextTpl>>

\* app.py: saveState, clip, drawImage, restoreState, in one try.  When the try
\* fails the restoreState is skipped; the clip is set or not by then.
CoverDrawPhoto ==
    /\ pc = "cover_draw"
    /\ IF cover.image # "none"
       THEN \E ok, clipped \in BOOLEAN :
               IF ok THEN Go([cover EXCEPT !.photo = TRUE], "cover_return")
               ELSE Fail("photoDraw", "photoDraw",
                         [cover EXCEPT !.depth = @ + 1, !.clip = clipped], "cover_return")
       ELSE Go(cover, "cover_return")
    /\ UNCHANGED <<variant, registered, regCount, nreq, req, qa_data, rem_text, story,
                   todo, pages, avail, nextTpl>>

\* main.py: one reference, the payload's or else the default; load, clip and
\* draw in one try, with no saveState around the clip.
CoverPhotoMain ==
    /\ pc = "cover_photo_main"
    /\ LET p_url == IF req.photo = "url" THEN "user" ELSE "default"
           st == [cover EXCEPT !.tried = Append(@, p_url)]
       IN  \E loaded, ok \in BOOLEAN :
              IF ~loaded
              THEN Fail(IF p_url = "user" THEN "userLoad" ELSE "defaultLoad",
                        IF p_url = "user" THEN "userLoad" ELSE "defaultLoad",
                        st, "cover_return")
              ELSE IF ~ok
              THEN Fail("photoDraw", "photoDraw",
                        [st EXCEPT !.image = p_url, !.clip = TRUE], "cover_return")
              ELSE Go([st EXCEPT !.image = p_url, !.clip = TRUE, !.photo = TRUE],
                      "cover_return")
    /\ UNCHANGED <<variant, registered, regCount, nreq, req, qa_data, rem_text, story,
                   todo, pages, avail, nextTpl>>

\* The closing canvas.restoreState() pops one saved state, and with it the clip
\* set since that state was saved.
CoverReturn ==
    /\ pc = "cover_return"
    /\ Go([cover EXCEPT !.depth = @ - 1, !.clip = FALSE, !.returned = TRUE], "layout")
    /\ UNCHANGED <<variant, registered, regCount, nreq, req, qa_data, rem_text, story,
                   todo, pages, avail, nextTpl>>

-----------------------------------------------------------------------------
(* doc.build(story): the flowables *)

\* The template a new page is laid out with, forgetting NextPageTemplate.
SameTemplate(cur, nxt) == cur

\* The template a new page is laid out with: the one NextPageTemplate named.
NewPageTemplate(cur, nxt) == nxt

Put(f) == [pages EXCEPT ![Len(pages)].items = Append(@, f)]

\* How many units of f the frame holds after f's head.
UnitsThatFit(f) == IF f.unit = 0 \/ avail < f.head + f.unit THEN 0
                   ELSE (avail - f.head) \div f.unit

layoutUnchanged == <<variant, registered, regCount, nreq, req, qa_data, rem_text, story,
                     cover>>

\* NextPageTemplate('Later'): an action flowable, it takes no room.
ApplyNextPageTemplate ==
    /\ pc = "layout" /\ todo # <<>>
    /\ Head(todo).kind = "NextPageTemplate"
    /\ nextTpl' = Head(todo).label
    /\ todo' = Tail(todo)
    /\ UNCHANGED <<pages, avail, pc, errAt, response>>
    /\ UNCHANGED layoutUnchanged

\* The flowable fits what is left of the current frame.
AddFlowable ==
    /\ pc = "layout" /\ todo # <<>>
    /\ Head(todo).kind # "NextPageTemplate"
    /\ Height(Head(todo)) <= avail
    /\ pages' = Put(Head(todo))
    /\ avail' = avail - Height(Head(todo))
    /\ todo' = Tail(todo)
    /\ UNCHANGED <<nextTpl, pc, errAt, response>>
    /\ UNCHANGED layoutUnchanged

\* It does not fit, but a part of it does: the frame takes that part (a table
\* its header and some rows, a paragraph some lines), the rest is next.
SplitFlowable ==
    /\ pc = "layout" /\ todo # <<>>
    /\ Head(todo).kind # "NextPageTemplate"
    /\ Height(Head(todo)) > avail
    /\ UnitsThatFit(Head(todo)) > 0
    /\ LET f == Head(todo)
           k == UnitsThatFit(f)
       IN  /\ pages' = Put([f EXCEPT !.n = k])
           /\ avail' = avail - Height([f EXCEPT !.n = k])
           /\ todo' = <<[f EXCEPT !.n = @ - k]>> \o Tail(todo)
    /\ UNCHANGED <<nextTpl, pc, errAt, response>>
    /\ UNCHANGED layoutUnchanged

\* Nothing of it fits a frame that holds something: the page ends and the next
\* begins, with its template's onPage callback (draw_later_pages_bg draws the
\* footer "Page N").
NewPage ==
    /\ pc = "layout" /\ todo # <<>>
    /\ Head(todo).kind # "NextPageTemplate"
    /\ Height(Head(todo)) > avail
    /\ UnitsThatFit(Head(todo)) = 0
    /\ avail < FrameAvail(pages[Len(pages)].tpl)
    /\ LET tpl == NewPageTemplate(pages[Len(pages)].tpl, nextTpl)
       IN  /\ pages' = Append(pages, Page(tpl, IF tpl = "Later" THEN Len(pages) + 1 ELSE 0))
           /\ avail' = FrameAvail(tpl)
    /\ UNCHANGED <<todo, nextTpl, pc, errAt, response>>
    /\ UNCHANGED layoutUnchanged

\* Nothing of it fits an empty frame: doc.build raises LayoutError.
LayoutError ==
    /\ pc = "layout" /\ todo # <<>>
    /\ Head(todo).kind # "NextPageTemplate"
    /\ Height(Head(todo)) > avail
    /\ UnitsThatFit(Head(todo)) = 0
    /\ avail = FrameAvail(pages[Len(pages)].tpl)
    /\ Raise("layout")
    /\ UNCHANGED <<todo, pages, avail, nextTpl>>
    /\ UNCHANGED layoutUnchanged

\* Lines 312-322: the story is placed, the document is written to the buffer
\* and sent.
SendFile ==
    /\ pc = "layout" /\ todo = <<>>
    /\ response' = FileResponse(pages)
    /\ pc' = "done"
    /\ UNCHANGED <<todo, pages, avail, nextTpl, errAt>>
    /\ UNCHANGED layoutUnchanged

\* The handler has returned: what it built is dropped, the font registry stays.
EndRequest ==
    /\ pc = "done"
    /\ pc' = "idle"
    /\ req' = [kind |-> "null", keys |-> {}, photo |-> "absent", ai |-> NoAi]
    /\ qa_data' = <<>> /\ rem_text' = <<>> /\ story' = <<>> /\ todo' = <<>>
    /\ pages' = <<>> /\ avail' = 0 /\ nextTpl' = "First" /\ cover' = NoCover
    /\ errAt' = "none" /\ response' = NoResponse
    /\ UNCHANGED <<variant, registered, regCount, nreq>>

-----------------------------------------------------------------------------
(* The specifications *)

\* A process that serves requests one after the other.
Init == ParseInitVars /\ VisInitVars /\ ReqInitVars /\ variant \in {"app", "main"}

Next ==
    \/ Validate /\ UNCHANGED <<parseVars, visVars>>
    \/ BuildStory /\ UNCHANGED <<parseVars, visVars>>
    \/ DocBuildBegin /\ UNCHANGED <<parseVars, visVars>>
    \/ CoverTemplate /\ UNCHANGED <<parseVars, visVars>>
    \/ CoverFont /\ UNCHANGED <<parseVars, visVars>>
    \/ CoverText /\ UNCHANGED <<parseVars, visVars>>
    \/ CoverLoadUser /\ UNCHANGED <<parseVars, visVars>>
    \/ CoverLoadDefault /\ UNCHANGED <<parseVars, visVars>>
    \/ CoverDrawPhoto /\ UNCHANGED <<parseVars, visVars>>
    \/ CoverPhotoMain /\ UNCHANGED <<parseVars, visVars>>
    \/ CoverReturn /\ UNCHANGED <<parseVars, visVars>>
    \/ ApplyNextPageTemplate /\ UNCHANGED <<parseVars, visVars>>
    \/ AddFlowable /\ UNCHANGED <<parseVars, visVars>>
    \/ SplitFlowable /\ UNCHANGED <<parseVars, visVars>>
    \/ NewPage /\ UNCHANGED <<parseVars, visVars>>
    \/ LayoutError /\ UNCHANGED <<parseVars, visVars>>
    \/ SendFile /\ UNCHANGED <<parseVars, visVars>>
    \/ EndRequest /\ UNCHANGED <<parseVars, visVars>>

Spec == Init /\ [][Next]_vars

\* parse_full_report on generated texts.
ParseInit == ParseInitVars /\ VisInitVars /\ ReqInitVars /\ variant \in {"app", "main"}

ParseNext ==
    \/ AppendBlock /\ UNCHANGED <<visVars, reqVars>>
    \/ AppendMarker /\ UNCHANGED <<visVars, reqVars>>
    \/ AppendMalformed /\ UNCHANGED <<visVars, reqVars>>
    \/ Parse /\ UNCHANGED <<visVars, reqVars>>

SpecParse == ParseInit /\ [][ParseNext]_vars

\* create_score_chart and create_qa_table on generated records.
VisInit == ParseInitVars /\ VisInitVars /\ ReqInitVars /\ variant \in {"app", "main"}

VisNext ==
    \/ AddRecord /\ UNCHANGED <<parseVars, reqVars>>
    \/ BuildChart /\ UNCHANGED <<parseVars, reqVars>>
    \/ BuildTable /\ UNCHANGED <<parseVars, reqVars>>

SpecVisuals == VisInit /\ [][VisNext]_vars

-----------------------------------------------------------------------------
(* C1: a text made of N well-formed Question / Score / Comment blocks      *)
(* (labels in any letter case, N >= 0) parses to exactly N records, the    *)
(* i-th made from the i-th block of the text: its question is that block's *)
(* question and its score the integer the block's score token denotes.     *)
C1_RecordPerBlock ==
    (parsed /\ wf) =>
        /\ Len(structured_qa) = Len(blocks)
        /\ \A i \in 1..Len(blocks) :
              /\ structured_qa[i].score = blocks[i].score
              /\ structured_qa[i].question = Strip(RemoveAll(blocks[i].q, "Your "))

\* two blocks, the second with lower-case labels, both found
C1_Witness ==
    /\ parsed /\ wf
    /\ Len(blocks) = 2
    /\ Len(structured_qa) = 2
    /\ structured_qa[1].score = 3
    /\ structured_qa[2].score = 10

-----------------------------------------------------------------------------
(* C2: the remainder is the text from the first occurrence, in any letter  *)
(* case, of "Overall Evaluation:" on (from its "2." prefix when it has one)*)
(* with the white space at its ends removed, and empty when the text holds *)
(* no such marker, whatever records the text holds and wherever the marker *)
(* lies.                                                                   *)
MarkerWords == {"Overall Evaluation:", "overall evaluation:"}

FirstMarker(t) ==
    LET at == {i \in 1..Len(t) : t[i] \in MarkerWords}
    IN  IF at = {} THEN 0 ELSE Min(at)

PrefixOf(t, j) ==
    {p \in 1..(j - 2) : /\ t[p] = "2" /\ t[p + 1] = "."
                        /\ \A k \in (p + 2)..(j - 1) : t[k] \in {SP, NL}}

RECURSIVE Trim(_)
Trim(t) ==
    IF t = <<>> THEN <<>>
    ELSE IF Head(t) \in {SP, NL} THEN Trim(Tail(t))
    ELSE IF t[Len(t)] \in {SP, NL} THEN Trim(SubSeq(t, 1, Len(t) - 1))
    ELSE t

ExpectedRemainder(t) ==
    LET j == FirstMarker(t)
    IN  IF j = 0 THEN <<>>
        ELSE IF PrefixOf(t, j) # {} THEN Trim(SubSeq(t, Max(PrefixOf(t, j)), Len(t)))
        ELSE Trim(SubSeq(t, j, Len(t)))

C2_RemainderFromFirstMarker ==
    parsed => remaining_text = ExpectedRemainder(text)

\* a marker that lies before a block, and inside the comment of another
C2_Witness ==
    /\ parsed
    /\ Len(structured_qa) = 2
    /\ remaining_text # <<>>
    /\ remaining_text[1] = "2"
    /\ \E i \in 1..Len(remaining_text) : remaining_text[i] = "Question:"
    /\ remaining_text[Len(remaining_text)] = "a"

-----------------------------------------------------------------------------
(* C3: a payload that lacks a required field is answered with the          *)
(* validation failure "Missing field: <name>", naming a field the payload  *)
(* does lack, before anything is parsed, built or rendered.                *)
C3_MissingFieldNamed ==
    (pc = "done" /\ req.kind = "object" /\ RequiredSet \ req.keys # {}) =>
        /\ response.outcome = "validation"
        /\ response.error = "Missing field"
        /\ response.field \in RequiredSet \ req.keys
        /\ qa_data = <<>> /\ story = <<>> /\ pages = <<>>
        /\ response.body = <<>>

-----------------------------------------------------------------------------
(* C4: a request ends in exactly one of a validation error, an internal    *)
(* error and a complete document; when a step after the validation raises, *)
(* it ends in the internal error and nothing of the document is sent.      *)
AllPlaced ==
    \A i \in 1..Len(story) :
        story[i].kind = "NextPageTemplate" \/
        \E p \in 1..Len(response.body) : \E k \in 1..Len(response.body[p].items) :
            response.body[p].items[k].label = story[i].label

C4_OneOutcomeNoPartialDocument ==
    /\ response.outcome \in {"none", "validation", "internal", "document"}
    /\ (pc = "done") <=> (response.outcome # "none")
    /\ (errAt # "none") <=> (response.outcome = "internal")
    /\ response.outcome \in {"validation", "internal"} => response.body = <<>>
    /\ response.outcome = "document" =>
          /\ todo = <<>>
          /\ response.body = pages
          /\ pages # <<>>
          /\ AllPlaced

\* doc.build raised with two pages begun; none of them is in the response
C4_Witness ==
    /\ errAt = "layout"
    /\ Len(pages) = 2
    /\ pages[1].items # <<>>
    /\ response.outcome = "internal"
    /\ response.body = <<>>

-----------------------------------------------------------------------------
RECURSIVE PlacedLabels(_)
\* The labels of the flowables on the pages, in the order they were placed.
PlacedLabels(ps) ==
    IF ps = <<>> THEN <<>>
    ELSE PlacedLabels(SubSeq(ps, 1, Len(ps) - 1))
         \o [k \in 1..Len(ps[Len(ps)].items) |-> ps[Len(ps)].items[k].label]

RECURSIVE Collapse(_)
\* A sequence without its immediate repetitions (the parts of a split flowable).
Collapse(q) ==
    IF Len(q) <= 1 THEN q
    ELSE IF q[1] = q[2] THEN Collapse(Tail(q))
    ELSE <<q[1]>> \o Collapse(Tail(q))

FlowLabels == [i \in 1..(Len(story) - 1) |-> story[i + 1].label]

-----------------------------------------------------------------------------
(* C6: draw_first_page_bg and draw_later_pages_bg never raise.  Whatever   *)
(* optional asset fails (template image, font, caller's photo, fallback    *)
(* photo, the drawing of the photo), the callback returns, only what       *)
(* failed is left out, the four lines of text are drawn, and the request   *)
(* still yields its document (unless the layout of the story fails).       *)
TemplateFailures == {"templateMissing", "templateDraw"}
FontFailures == {"fontMissing", "fontRegister"}
PhotoFailures == {"userLoad", "defaultLoad", "photoDraw"}

C6_ChromeNeverRaises ==
    /\ errAt # "chrome"
    /\ cover.returned =>
          /\ cover.text
          /\ cover.bg <=> (cover.failed \cap TemplateFailures = {})
          /\ (cover.font = "custom") <=> (cover.failed \cap FontFailures = {})
          /\ (cover.font = "builtin") <=> (cover.failed \cap FontFailures # {})
          /\ ~cover.photo => (cover.failed \cap PhotoFailures # {})
    /\ (pc = "done" /\ cover.returned /\ errAt # "layout") =>
          /\ response.outcome = "document"
          /\ \A i \in 2..Len(response.body) : response.body[i].footer = i

\* the template image, the font, the caller's photo and the drawing of the
\* fallback photo all failed, and the document was sent
C6_Witness ==
    /\ cover.returned
    /\ cover.failed = {"templateDraw", "fontRegister", "userLoad", "photoDraw"}
    /\ cover.text
    /\ response.outcome = "document"
    /\ Len(response.body) >= 2

-----------------------------------------------------------------------------
(* C7: the story is the template switch, then the "Score Overview" heading *)
(* with the chart and the "Detailed Question Analysis" heading with the    *)
(* table exactly when there are records, then the formatted narrative      *)
(* exactly when the remainder is not empty, in this order; both builders   *)
(* return None for no records.                                             *)
StoryLabels == [i \in 1..Len(story) |-> story[i].label]
StoryKinds == [i \in 1..Len(story) |-> story[i].kind]

C7_StoryShape ==
    /\ create_score_chart(<<>>) = NoneValue
    /\ create_qa_table(<<>>) = NoneValue
    /\ story # <<>> =>
          /\ StoryLabels =
                <<"Later">>
                \o (IF qa_data # <<>>
                    THEN <<"Score Overview", "chart", "Spacer(1, 15)",
                           "Detailed Question Analysis", "Spacer(1, 5)", "table",
                           "Spacer(1, 20)">>
                    ELSE <<>>)
                \o (IF rem_text # <<>> THEN <<"narrative">> ELSE <<>>)
          /\ StoryKinds =
                <<"NextPageTemplate">>
                \o (IF qa_data # <<>>
                    THEN <<"Paragraph", "Drawing", "Spacer", "Paragraph", "Spacer",
                           "table", "Spacer">>
                    ELSE <<>>)
                \o (IF rem_text # <<>> THEN <<"Paragraph">> ELSE <<>>)
          /\ rem_text # <<>> => story[Len(story)].txt = FormatRemainder(rem_text)

\* no record and a remainder: the narrative alone
C7_Witness ==
    /\ story # <<>>
    /\ qa_data = <<>>
    /\ rem_text # <<>>
    /\ StoryLabels = <<"Later", "narrative">>
    /\ response.outcome = "document"

-----------------------------------------------------------------------------
(* C8: for every score the bar of the chart and the score cell of the      *)
(* table are coloured by the same band: low (red) up to 3, mid (amber /    *)
(* orange) from 4 to 6, high (green) from 7.                               *)
BandOfFill(c) ==
    CASE c = "#e74c3c" -> "low" [] c = "#f1c40f" -> "mid" [] c = "#2ecc71" -> "high"

BandOfFont(c) ==
    CASE c = "red" -> "low" [] c = "orange" -> "mid" [] c = "green" -> "high"

BandOfScore(s) == IF s <= 3 THEN "low" ELSE IF s <= 6 THEN "mid" ELSE "high"

C8_SameBand ==
    (chart.st = "drawing" /\ table.st = "table") =>
        \A i \in 1..Len(parsed_data) :
            /\ BandOfFill(chart.fills[i]) = BandOfFont(table.fills[i])
            /\ BandOfFill(chart.fills[i]) = BandOfScore(parsed_data[i].score)
            /\ chart.data[i] = parsed_data[i].score
            /\ table.data[i][3] = parsed_data[i].score

\* the scores 3 and 4, then 6 and 7, on either side of a threshold
C8_Witness ==
    /\ chart.st = "drawing" /\ table.st = "table"
    /\ \E i, j \in 1..Len(parsed_data) :
          /\ parsed_data[i].score = 6 /\ table.fills[i] = "orange"
          /\ parsed_data[j].score = 7 /\ chart.fills[j] = "#2ecc71"

-----------------------------------------------------------------------------
(* C9: on the cover page the caller's photo is tried first; the fallback   *)
(* photo is tried after it exactly when the payload names no photo or the  *)
(* caller's photo did not load; and a photo is drawn whenever one of the   *)
(* two loaded (and the drawing itself did not fail).                       *)
TriedSet == {cover.tried[i] : i \in 1..Len(cover.tried)}

C9_FallbackAfterCallerPhoto ==
    cover.returned =>
        /\ req.photo = "url" => (cover.tried # <<>> /\ cover.tried[1] = "user")
        /\ ("default" \in TriedSet) <=> (req.photo # "url" \/ "userLoad" \in cover.failed)
        /\ (cover.image # "none" /\ "photoDraw" \notin cover.failed) => cover.photo

-----------------------------------------------------------------------------
(* C10: over any number of requests the custom font is registered at most  *)
(* once in the process, and the registry is only ever seen without the     *)
(* font or with it.                                                        *)
C10_RegisteredAtMostOnce ==
    /\ regCount <= 1
    /\ registered \in BOOLEAN
    /\ registered <=> (regCount > 0)

-----------------------------------------------------------------------------
(* C11: for every matched block, the record's question is the matched      *)
(* question text with only a leading "Your " removed and then trimmed (a   *)
(* "Your " further on in the question is kept), and the record's comment   *)
(* is the matched comment text trimmed, each line break in it replaced by  *)
(* one space.                                                              *)
DropLeadingYour(q) == IF q # <<>> /\ Head(q) = "Your " THEN Tail(q) ELSE q

SpaceForBreaks(c) == [i \in 1..Len(c) |-> IF c[i] = NL THEN SP ELSE c[i]]

MatchedQuestion(i) ==
    LET m == FindAll(text, 1)[i] IN Slice(text, m[1], m[2] - 1)

MatchedComment(i) ==
    LET m == FindAll(text, 1)[i] IN Slice(text, m[5], m[6] - 1)

C11_OnlyLeadingYourRemoved ==
    parsed =>
        \A i \in 1..Len(structured_qa) :
            /\ structured_qa[i].question = Trim(DropLeadingYour(MatchedQuestion(i)))
            /\ structured_qa[i].comment = SpaceForBreaks(Trim(MatchedComment(i)))

-----------------------------------------------------------------------------
(* C12: on every path of draw_first_page_bg, the paths where clipping or   *)
(* drawing the photo raises and is caught included, each saveState is met  *)
(* by one restoreState: when the callback returns, the stack of saved      *)
(* graphics states is as deep as on entry (empty), and no clip region set  *)
(* for the photo is still in effect.                                       *)
C12_SaveRestoreBalanced ==
    cover.returned =>
        /\ cover.depth = NoCover.depth
        /\ ~cover.clip

=============================================================================
